---- MODULE Spec2Model ----
(***************************************************************************)
(* Model of lib/shaker.js: the Shaker compiler.  One run() of a            *)
(* constructed Shaker: the manifest check, the optional CSS lint gate,     *)
(* then either the development rename pass or the rollup compilation on    *)
(* an async.queue with bounded concurrency, and the metadata write.        *)
(***************************************************************************)
EXTENDS Integers, Sequences, FiniteSets, TLC

\* Bounds of the model.
MaxFiles == 2       \* file references in the whole metadata tree
MaxParallel == 2    \* largest shaker.parallel tried

\* Program constants.
DEFAULT_TASK == "raw"
ASSETS_DIR == "assets/"
COMPILED_DIR == ASSETS_DIR \o "compiled/"
IMAGES_DIR == ASSETS_DIR \o "images/"
\* this._core.getStaticRoot(), stored in this._config.root
STATIC_ROOT == "/static/app/"

\* The values of this._task: the default, or a gear task ('local' is 'write').
TaskNames == {DEFAULT_TASK, "write"}

\* Error values a gear queue can hand to a build's run callback.
Errors == {"ENOENT", "ETASK"}

(***************************************************************************)
(* The metadata tree.  A leaf is named by its access path in the JS        *)
(* object; for..in visits keys in the order given here.                    *)
(***************************************************************************)
MojitOrder == <<"m">>
ActionOrder == <<"*">>
DimOrder == <<"common">>
AppActionOrder == <<"index">>

CORE == <<"core">>
IMAGES == <<"images">>
MojitShaken(mojit, action, dim) == <<"mojits", mojit, action, "shaken", dim>>
MojitClient(mojit, action) == <<"mojits", mojit, action, "client">>
AppShaken(action, dim) == <<"app", action, "shaken", dim>>
AppClient(action) == <<"app", action, "client">>

Range(s) == {s[i] : i \in 1..Len(s)}

RECURSIVE Flatten(_)
Flatten(ss) == IF ss = <<>> THEN <<>> ELSE Head(ss) \o Flatten(Tail(ss))

MojitLeaves ==
    Flatten([i \in 1..Len(MojitOrder) |->
      Flatten([j \in 1..Len(ActionOrder) |->
        <<MojitClient(MojitOrder[i], ActionOrder[j])>> \o
        [k \in 1..Len(DimOrder) |->
            MojitShaken(MojitOrder[i], ActionOrder[j], DimOrder[k])]])])

AppLeaves ==
    Flatten([j \in 1..Len(AppActionOrder) |->
        <<AppClient(AppActionOrder[j])>> \o
        [k \in 1..Len(DimOrder) |-> AppShaken(AppActionOrder[j], DimOrder[k])]])

LeafOrder == <<IMAGES, CORE>> \o MojitLeaves \o AppLeaves
Leaves == Range(LeafOrder)

IsShaken(leaf) == leaf[Len(leaf) - 1] = "shaken"
IsClient(leaf) == leaf[Len(leaf)] = "client"
ShakenLeaves == {l \in Leaves : l \notin {CORE, IMAGES} /\ IsShaken(l)}
ClientLeaves == {l \in Leaves : l \notin {CORE, IMAGES} /\ IsClient(l)}

\* Local paths the metadata provider can put in each kind of leaf.
CoreFiles == {"mojito.js"}
ClientFiles == {"binder.js"}
DimFiles == {"a.js", "b.css", "c.png"}
ImageFiles == {"img/i.png", "img/j.png"}
AllFiles == CoreFiles \cup ClientFiles \cup DimFiles \cup ImageFiles

FilesOf(leaf) ==
    IF leaf = CORE THEN CoreFiles
    ELSE IF leaf = IMAGES THEN ImageFiles
    ELSE IF IsClient(leaf) THEN ClientFiles
    ELSE DimFiles

\* All lists of exactly n files of S.
ListsOfLen(S, n) == [1..n -> S]

\* All assignments of lists to the leaves ls[1..], at most n files in total,
\* as sequences parallel to ls.
RECURSIVE TreesOver(_, _)
TreesOver(ls, n) ==
    IF ls = <<>> THEN {<<>>}
    ELSE UNION {
           {<<first>> \o rest : first \in ListsOfLen(FilesOf(Head(ls)), k),
                                 rest \in TreesOver(Tail(ls), n - k)}
           : k \in 0..n}

LeafIndex(leaf) == CHOOSE i \in 1..Len(LeafOrder) : LeafOrder[i] = leaf

Trees == {[l \in Leaves |-> t[LeafIndex(l)]] : t \in TreesOver(LeafOrder, MaxFiles)}

(***************************************************************************)
(* Collaborators of the compiler.                                          *)
(***************************************************************************)
\* mime.lookup on the paths of the model, by extension.
mimeLookup(file) ==
    CASE file \in {"mojito.js", "binder.js", "a.js",
                    "assets/compiled/core_{checksum}.js",
                    "assets/compiled/client_m_{checksum}.js",
                    "assets/compiled/m_default_{checksum}.js"} -> "application/javascript"
      [] file \in {"b.css", "d.css",
                    "assets/compiled/m_default_{checksum}.css"} -> "text/css"
      [] file \in {"index.mu.html", "mojits/m/views/index.mu.html"} -> "text/html"
      [] OTHER -> "image/png"

\* this._core.getURL: a local path to the URL it is served at.
getURL(file) == STATIC_ROOT \o file

\* path.basename on the image paths of the model.
basename(file) ==
    CASE file = "img/i.png" -> "i.png"
      [] file = "img/j.png" -> "j.png"
      [] OTHER -> file

(***************************************************************************)
(* Pure parts of the compiler.                                             *)
(***************************************************************************)
\* Mutant of filterFiles: the css test is dropped, all that is not js is css.
filterFilesElse(files) ==
    [js |-> SelectSeq(files, LAMBDA f : mimeLookup(f) = "application/javascript"),
     css |-> SelectSeq(files, LAMBDA f : mimeLookup(f) # "application/javascript")]

\* Shaker.prototype._filterFiles (the sync wrapper of syncWrap changes no
\* membership and no order, and is left out).
filterFiles(files) ==
    [js |-> SelectSeq(files, LAMBDA f : mimeLookup(f) = "application/javascript"),
     css |-> SelectSeq(files, LAMBDA f : mimeLookup(f) = "text/css")]

\* Shaker.prototype._rename: every list it visits, element by element.
renameList(list) == [k \in 1..Len(list) |-> getURL(list[k])]

\* The leaves _rename visits: mojits, app and core.
renamedLeaves == ShakenLeaves \cup ClientLeaves \cup {CORE}

rename(m) == [l \in Leaves |-> IF l \in renamedLeaves THEN renameList(m[l]) ELSE m[l]]

\* action.replace('*', 'default') on the action names of the model.
replaceStar(action) == IF action = "*" THEN "default" ELSE action

Item(object, name, files, sink) ==
    [object |-> object, name |-> name, files |-> files, sink |-> sink]

\* Mutant of imageItems: only the first image is pushed.
imageItemsFirstOnly(m, deploy) ==
    IF deploy /\ Len(m[IMAGES]) > 0
    THEN <<Item("Image", IMAGES_DIR \o basename(m[IMAGES][1]), <<m[IMAGES][1]>>, IMAGES)>>
    ELSE <<>>

\* _queueRollups, the images block: one Image per image, all on one sink.
imageItems(m, deploy) ==
    IF deploy
    THEN [k \in 1..Len(m[IMAGES]) |->
            Item("Image", IMAGES_DIR \o basename(m[IMAGES][k]), <<m[IMAGES][k]>>, IMAGES)]
    ELSE <<>>

\* _queueRollups, the core block: pushed whatever core holds.
coreItems(m) ==
    <<Item("Rollup", COMPILED_DIR \o "core_{checksum}.js", m[CORE], CORE)>>

\* Mutant of clientItems: the item's files is metadata.core, not the list.
clientItemsOnCore(m, leaf, name) ==
    IF Len(m[leaf]) > 0
    THEN <<Item("ClientRollup", COMPILED_DIR \o name, m[leaf], CORE)>>
    ELSE <<>>

\* _queueRollups, a client list: one ClientRollup when it is not empty.
clientItems(m, leaf, name) ==
    IF Len(m[leaf]) > 0
    THEN <<Item("ClientRollup", COMPILED_DIR \o name, m[leaf], leaf)>>
    ELSE <<>>

\* Mutant of shakenItems: one Rollup for the whole list, whatever its types.
shakenOneRollup(m, leaf, name) ==
    IF Len(m[leaf]) > 0
    THEN <<Item("Rollup", COMPILED_DIR \o name \o ".js", m[leaf], leaf)>>
    ELSE <<>>

\* _queueRollups, a dimension list: a js and a css Rollup on the same sink.
shakenItems(m, leaf, name) ==
    IF Len(m[leaf]) > 0
    THEN LET filtered == filterFiles(m[leaf])
         IN  (IF Len(filtered.js) > 0
              THEN <<Item("Rollup", COMPILED_DIR \o name \o ".js", filtered.js, leaf)>>
              ELSE <<>>) \o
             (IF Len(filtered.css) > 0
              THEN <<Item("Rollup", COMPILED_DIR \o name \o ".css", filtered.css, leaf)>>
              ELSE <<>>)
    ELSE <<>>

\* _queueRollups, the body of `for (action in metadata.mojits[mojit])`.
mojitActionItems(m, mojit, action) ==
    clientItems(m, MojitClient(mojit, action),
                "client_" \o mojit \o "_{checksum}.js") \o
    Flatten([k \in 1..Len(DimOrder) |->
        shakenItems(m, MojitShaken(mojit, action, DimOrder[k]),
                    mojit \o "_" \o replaceStar(action) \o "_{checksum}")])

mojitItems(m) ==
    Flatten([i \in 1..Len(MojitOrder) |->
      Flatten([j \in 1..Len(ActionOrder) |->
        mojitActionItems(m, MojitOrder[i], ActionOrder[j])])])

\* _queueRollups, the body of `for (action in metadata.app)`.
appActionItems(m, action) ==
    clientItems(m, AppClient(action),
                "appclient_" \o action \o "_{checksum}.js") \o
    Flatten([k \in 1..Len(DimOrder) |->
        shakenItems(m, AppShaken(action, DimOrder[k]),
                    "app_" \o replaceStar(action) \o "_{checksum}")])

appItems(m) ==
    Flatten([j \in 1..Len(AppActionOrder) |-> appActionItems(m, AppActionOrder[j])])

\* Shaker.prototype._queueRollups: the items pushed, in push order.
queueRollups(m, deploy) ==
    imageItems(m, deploy) \o coreItems(m) \o mojitItems(m) \o appItems(m)

\* Mutant of truncated: no list is cleared.
notTruncated(m, deploy) == m

\* Shaker.prototype._queueRollups: the tree after its `length = 0` statements.
truncated(m, deploy) ==
    [l \in Leaves |->
        IF l = IMAGES THEN (IF deploy THEN <<>> ELSE m[l])
        ELSE IF l = CORE THEN <<>>
        ELSE IF Len(m[l]) > 0 THEN <<>>
        ELSE m[l]]

\* The URL a build hands to its callback: config.root + result.name.
builtURL(item) == STATIC_ROOT \o item.name

\* The files the lint gate reads: this._core.getFiles(), every discovered file.
getFiles(m) == Flatten([i \in 1..Len(LeafOrder) |-> m[LeafOrder[i]]])

\* Mutant of csslintCallback: issues are logged and nothing is returned.
csslintCallbackSilent(bad) == "null"

\* The csslint callback's return value, which gear takes as the error.
csslintCallback(bad) == IF bad # {} THEN "[SHAKER] - Aborting" ELSE "null"

\* shaker.parallel in application.json: <<>> when undefined, else <<n>>.
ParallelConfigs == {<<>>} \cup {<<n>> : n \in 1..MaxParallel}

\* The Shaker constructor: this._parallel, 20 unless configured.
parallelOf(c) == IF c # <<>> THEN c[1] ELSE 20

\* Mutant of manifestAbsent: the check is skipped.
manifestNeverAbsent(present) == FALSE

\* run's guard: application.json is absent.
manifestAbsent(present) == ~present

\* Mutant of concurrency: one worker too many.
concurrencyOffByOne(limit) == limit + 1

\* async.queue(worker, this._parallel): the concurrency handed to the queue.
concurrency(limit) == limit

\* Mutant of rethrow: the error is wrapped in a message.
rethrowWrapped(err) == "Error: " \o err

\* The err the build callback throws.
rethrow(err) == err

\* Mutant of signalsOnError: the error is logged and the task signals.
signalsOnErrorYes == TRUE

\* Whether the build callback reaches taskCallback() when err is set.
signalsOnError == FALSE

\* Mutant of sinkAtSignal: taskCallback() is called before files.push(url).
sinkBeforePush(list, url) == list

\* The sink as the queue's completion handler finds it: files.push(url) has
\* run before taskCallback().
sinkAtSignal(list, url) == Append(list, url)

\* utils.simpleClone: a new object with the fields of obj. An object is
\* modelled with its identity: alias tells whether it is this._config itself.
simpleClone(obj) == [alias |-> FALSE, value |-> obj]

\* Mutant of buildConfig: the build works on options.config itself.
buildConfigShared(shared, item) ==
    [alias |-> TRUE,
     value |-> [shared EXCEPT !.name = item.name,
                             !.encoding = IF item.object = "Image" THEN "bin" ELSE @]]

\* build of Image, Rollup and ClientRollup: config is a clone of
\* options.config, then config.name is set (and config.encoding by Image).
buildConfig(shared, item) ==
    LET config == simpleClone(shared)
    IN  [config EXCEPT !.value.name = item.name,
                       !.value.encoding = IF item.object = "Image" THEN "bin" ELSE @]

\* The config object of an item whose build has not been invoked.
NoConfig == simpleClone([root |-> STATIC_ROOT, name |-> "undefined", encoding |-> "undefined"])

\* What a build hands to its callback as skipped, given result.skipped of
\* the output task: Rollup forwards it, Image and ClientRollup pass nothing.
reportsSkipped(item, resultSkipped) ==
    IF item.object = "Rollup" THEN resultSkipped ELSE FALSE

\* Mutant of logsPush: the push is logged whatever the build reports.
logsPushAlways(skipped) == TRUE

\* The build callback of _compileRollups logs 'Pushed file' unless skipped.
logsPush(skipped) == ~skipped

VARIABLES
    isMojitApp,  \* this._core.isMojitApp(): application.json is present
    lint,        \* this._lint
    task,        \* this._task
    images,      \* this._images
    parallel,    \* this._parallel
    provided,    \* the tree this._core.run() returns, as first built
    metadata,    \* the metadata tree, mutated in place
    metaRead,    \* this._core.run() has been called
    pc,          \* "start", "lint" (csslint queue running), "compile", "idle"
    lintBad,     \* the CSS files csslint reported issues for
    callbacks,   \* the err argument of each call of run's callback
    written,     \* the metadata of each _writeMeta call
    items,       \* every item pushed on the async queue, in push order
    q,           \* q.tasks: indices of items not yet dispatched
    ticks,       \* pending async.nextTick(q.process) calls
    workers,     \* the queue's count of running workers
    status,      \* per item: "queued", "delay", "build", "done", "failed"
    builds,      \* per item: how often its object's build was invoked
    thrown,      \* errors thrown out of the build callback: the item, the
                 \* backend's error, the error thrown, the items then in flight
    crashed,     \* the process ended on an uncaught exception
    sharedConfig,\* this._config, the object every build gets as options.config
    configs,     \* per item: the config object its build works on
    received,    \* per item: the config.name its output task ran with
    unchanged,   \* the names whose content the output directory already holds
    pushed,      \* the items for which 'Pushed file' was logged
    call         \* a call of one method on its own: its arguments and result

config == <<isMojitApp, lint, task, images, parallel, provided, unchanged, call>>
queue == <<items, q, ticks, workers, status, builds, configs, received, pushed>>
vars == <<isMojitApp, lint, task, images, parallel, provided, metadata,
          metaRead, pc, lintBad, callbacks, written, items, q, ticks,
          workers, status, builds, thrown, crashed, sharedConfig, configs,
          received, unchanged, pushed, call>>

\* The state after construction, whatever the output directory holds.
Constructed ==
    /\ isMojitApp \in BOOLEAN
    /\ lint \in BOOLEAN
    /\ task \in TaskNames
    /\ images \in BOOLEAN
    /\ \E c \in ParallelConfigs : parallel = parallelOf(c)
    /\ provided \in Trees
    /\ metadata = provided
    /\ metaRead = FALSE
    /\ pc = "start"
    /\ lintBad = {}
    /\ callbacks = <<>>
    /\ written = <<>>
    /\ items = <<>>
    /\ q = <<>>
    /\ ticks = 0
    /\ workers = 0
    /\ status = <<>>
    /\ builds = <<>>
    /\ thrown = <<>>
    /\ crashed = FALSE
    /\ sharedConfig = [root |-> STATIC_ROOT, name |-> "undefined", encoding |-> "undefined"]
    /\ configs = <<>>
    /\ received = <<>>
    /\ pushed = {}
    /\ call = [op |-> "none"]

\* A run over an empty output directory: no output task reports skipped.
Init ==
    /\ Constructed
    /\ unchanged = {}

(***************************************************************************)
(* Shaker.prototype._writeMeta and the callbacks, as parts of actions.     *)
(***************************************************************************)
\* _writeMeta(tree); callback(null, metadata)
writeMeta(tree) ==
    /\ written' = Append(written, tree)
    /\ callbacks' = Append(callbacks, "null")

\* Shaker.prototype._compileRollups: the queue is made, drain is set and
\* _queueRollups pushes every item; each push schedules one q.process.
compileRollups ==
    /\ items' = queueRollups(metadata, images)
    /\ metadata' = truncated(metadata, images)
    /\ q' = [i \in 1..Len(items') |-> i]
    /\ ticks' = Len(items')
    /\ workers' = 0
    /\ status' = [i \in 1..Len(items') |-> "queued"]
    /\ builds' = [i \in 1..Len(items') |-> 0]
    /\ configs' = [i \in 1..Len(items') |-> NoConfig]
    /\ received' = [i \in 1..Len(items') |-> "undefined"]
    /\ pushed' = {}
    /\ pc' = "compile"
    /\ UNCHANGED <<callbacks, written>>

\* Shaker.prototype._runTask
runTask ==
    /\ IF task = DEFAULT_TASK
       THEN /\ metadata' = rename(metadata)
            /\ writeMeta(metadata')
            /\ pc' = "idle"
            /\ UNCHANGED queue
       ELSE compileRollups
    /\ UNCHANGED <<thrown, crashed>>

\* Shaker.prototype._lintFiles: the csslint queue runs only over CSS files;
\* with none, the function returns and nothing is pending.
lintFiles ==
    /\ pc' = IF Len(filterFiles(getFiles(metadata)).css) > 0 THEN "lint" ELSE "idle"
    /\ UNCHANGED <<metadata, callbacks, written, queue, thrown, crashed>>

\* Shaker.prototype.run
run ==
    /\ pc = "start"
    /\ IF manifestAbsent(isMojitApp)
       THEN /\ callbacks' = Append(callbacks, "ERROR")
            /\ pc' = "idle"
            /\ UNCHANGED <<metadata, metaRead, written, queue, thrown, crashed>>
       ELSE /\ metaRead' = TRUE
            /\ IF lint THEN lintFiles ELSE runTask
    /\ UNCHANGED <<config, lintBad, sharedConfig>>

\* The run callback of the csslint queue: csslint has reported issues for
\* the files of bad; any issue makes err non-null.
lintDone ==
    /\ pc = "lint"
    /\ \E bad \in SUBSET Range(filterFiles(getFiles(metadata)).css) :
          /\ lintBad' = bad
          /\ IF csslintCallback(bad) # "null"
             THEN /\ pc' = "idle"
                  /\ UNCHANGED <<metadata, callbacks, written, queue, thrown, crashed>>
             ELSE runTask
    /\ UNCHANGED <<config, metaRead, sharedConfig>>

(***************************************************************************)
(* The async queue made in _compileRollups.                                *)
(***************************************************************************)
ItemIds == 1..Len(items)

\* The items dispatched whose build has not called back.
InFlight == {i \in ItemIds : status[i] \in {"delay", "build"}}

\* q.process, run from a nextTick: dispatch the head item if a worker is
\* free; the worker starts the item's setTimeout.
process ==
    /\ ~crashed
    /\ ticks > 0
    /\ ticks' = ticks - 1
    /\ IF workers < concurrency(parallel) /\ q # <<>>
       THEN /\ q' = Tail(q)
            /\ workers' = workers + 1
            /\ status' = [status EXCEPT ![Head(q)] = "delay"]
       ELSE UNCHANGED <<q, workers, status>>
    /\ UNCHANGED <<config, metadata, metaRead, pc, lintBad, callbacks, written,
                   items, builds, thrown, crashed, sharedConfig, configs, received,
                   pushed>>

\* The setTimeout of item i fires: item.object.build is invoked. Every
\* timer has the same delay, this._delay, so they fire in the order set,
\* which is the order of dispatch.
timer(i) ==
    /\ ~crashed
    /\ ticks = 0
    /\ status[i] = "delay"
    /\ \A j \in ItemIds : status[j] = "delay" => i <= j
    /\ status' = [status EXCEPT ![i] = "build"]
    /\ builds' = [builds EXCEPT ![i] = @ + 1]
    /\ LET mine == buildConfig(sharedConfig, items[i])
       IN  /\ configs' = [configs EXCEPT ![i] = mine]
           /\ sharedConfig' = IF mine.alias THEN mine.value ELSE sharedConfig
    /\ UNCHANGED <<config, metadata, metaRead, pc, lintBad, callbacks, written,
                   items, q, ticks, workers, thrown, crashed, received, pushed>>

\* taskCallback() of item i: the queue frees the worker, calls drain when
\* nothing is queued or running, and runs q.process. seen is the tree at
\* that moment.
taskCallback(i, st, seen) ==
    LET w == workers - 1
    IN  /\ IF Len(q) + w = 0
           THEN writeMeta(seen) /\ pc' = "idle"
           ELSE UNCHANGED <<written, callbacks, pc>>
        /\ IF w < concurrency(parallel) /\ q # <<>>
           THEN /\ q' = Tail(q)
                /\ workers' = w + 1
                /\ status' = [status EXCEPT ![i] = st, ![Head(q)] = "delay"]
           ELSE /\ q' = q
                /\ workers' = w
                /\ status' = [status EXCEPT ![i] = st]
        /\ UNCHANGED <<items, ticks, builds, configs>>

\* The config.name the output task of item i runs with: the name in the
\* object its build works on, as that object is when the task runs.
nameSeen(i) == IF configs[i].alias THEN sharedConfig.name ELSE configs[i].value.name

\* result.skipped of the output task: it writes nothing where the content
\* of that name is already there.
resultSkipped(item) == item.name \in unchanged

\* The build of item i calls back with a URL: it is pushed on the item's
\* files, the sink, and the task signals completion.
built(i) ==
    /\ ~crashed
    /\ ticks = 0
    /\ status[i] = "build"
    /\ LET url == builtURL(items[i])
           sink == items[i].sink
       IN  /\ metadata' = [metadata EXCEPT ![sink] = Append(@, url)]
           /\ taskCallback(i, "done", [metadata EXCEPT ![sink] = sinkAtSignal(@, url)])
    /\ received' = [received EXCEPT ![i] = nameSeen(i)]
    /\ pushed' = IF logsPush(reportsSkipped(items[i], resultSkipped(items[i])))
                 THEN pushed \cup {i} ELSE pushed
    /\ UNCHANGED <<config, metaRead, lintBad, thrown, crashed, sharedConfig>>

\* The build of item i calls back with an error: the callback throws it.
\* Nothing catches it: the process ends, unless its host handles uncaught
\* exceptions, and then the event loop goes on.
failed(i) ==
    /\ ~crashed
    /\ ticks = 0
    /\ status[i] = "build"
    /\ \E e \in Errors :
          IF signalsOnError
          THEN /\ taskCallback(i, "failed", metadata)
               /\ UNCHANGED <<thrown, crashed>>
          ELSE /\ thrown' = Append(thrown, [item |-> i, backend |-> e, err |-> rethrow(e),
                                          siblings |-> InFlight \ {i}])
               /\ status' = [status EXCEPT ![i] = "failed"]
               /\ \E survives \in BOOLEAN : crashed' = ~survives
               /\ UNCHANGED <<pc, callbacks, written, items, q, ticks, workers, builds,
                              configs>>
    /\ UNCHANGED <<config, metadata, metaRead, lintBad, sharedConfig, received,
                   pushed>>

Next ==
    \/ run
    \/ lintDone
    \/ process
    \/ \E i \in 1..Len(items) : timer(i)
    \/ \E i \in 1..Len(items) : built(i)
    \/ \E i \in 1..Len(items) : failed(i)

Spec == Init /\ [][Next]_vars

(***************************************************************************)
(* Vocabulary of the properties.                                           *)
(***************************************************************************)
BuildMode == task # DEFAULT_TASK
Unsignalled == {i \in ItemIds : status[i] \in {"delay", "build", "failed"}}
AnyFailed == \E i \in ItemIds : status[i] = "failed"
AllDone == items # <<>> /\ \A i \in ItemIds : status[i] = "done"
ItemsOn(leaf) == {i \in ItemIds : items[i].sink = leaf}
Sinks == {items[i].sink : i \in ItemIds}
Successes == SelectSeq(callbacks, LAMBDA e : e = "null")
\* Some callback of the event loop is still to run.
Pending ==
    \/ pc \in {"start", "lint"}
    \/ ~crashed /\ (ticks > 0 \/ InFlight # {})
Quiescent == ~Pending

\* C1: in a build-mode run the drain handler (write the metadata, call back
\* with null) runs at most once, only when every pushed item is done, and
\* the tree it writes holds the URL of every item on that item's sink; once
\* every item is done it has run.
C1_DrainOnceAfterAll ==
    BuildMode =>
      /\ Len(written) <= 1
      /\ Len(Successes) = Len(written)
      /\ written # <<>> =>
            /\ AllDone
            /\ \A i \in ItemIds :
                  builtURL(items[i]) \in Range(written[1][items[i].sink])
            /\ \A l \in Sinks : Len(written[1][l]) = Cardinality(ItemsOn(l))
      /\ AllDone => Len(written) = 1 /\ callbacks = <<"null">>

\* A build-mode run of three items or more, all built, has drained.
C1_Witness ==
    /\ BuildMode
    /\ Len(items) >= 3
    /\ AllDone
    /\ Len(written) = 1
    /\ callbacks = <<"null">>

\* C2: the items dispatched by the queue that have not signalled completion
\* (waiting out the delay, building, or failed without signalling) are the
\* queue's running workers and never more than this._parallel, which is 20
\* unless configured.
C2_AtMostParallel ==
    /\ Cardinality(Unsignalled) <= parallel
    /\ Cardinality(Unsignalled) = workers
    /\ parallel \in (1..MaxParallel) \cup {20}

\* The queue is saturated: as many items in flight as the limit allows, one
\* of them still in its delay, and more items waiting.
C2_Witness ==
    /\ parallel = 2
    /\ Cardinality(InFlight) = parallel
    /\ \E i \in InFlight : status[i] = "delay"
    /\ q # <<>>

\* The leaves the claims about bundling name: core, the dimension lists and
\* the client lists.
BundledLeaves == {CORE} \cup ShakenLeaves \cup ClientLeaves
\* The local paths and the URLs of the builds.
IsLocalPath(x) == x \in AllFiles
BuiltURLsOn(leaf) == {builtURL(items[i]) : i \in ItemsOn(leaf)}
\* How many of the two groups, js and css, a list has a file of.
HasType(list, type) == \E k \in 1..Len(list) : mimeLookup(list[k]) = type
GroupCount(list) ==
    (IF HasType(list, "application/javascript") THEN 1 ELSE 0) +
    (IF HasType(list, "text/css") THEN 1 ELSE 0)
SuccessfulBuild == BuildMode /\ written # <<>>
SuccessfulDev == ~BuildMode /\ written # <<>>

\* C3 as stated: after a successful build-mode run every core, dimension
\* and client list that was not empty before the run holds exactly one URL.
C3_Original ==
    SuccessfulBuild =>
      \A l \in BundledLeaves : provided[l] # <<>> => Len(metadata[l]) = 1

\* C3, amended: after a successful build-mode run core and every client list
\* that was not empty hold exactly one URL, and a dimension list that was not
\* empty holds one URL for each of the groups js and css it had a file of:
\* none, one or two. No local path is left in them, and that is the tree
\* written.
C3_OneURLPerGroup ==
    SuccessfulBuild =>
      \A l \in BundledLeaves :
        provided[l] # <<>> =>
          /\ Len(metadata[l]) =
                (IF l \in ShakenLeaves THEN GroupCount(provided[l]) ELSE 1)
          /\ \A k \in 1..Len(metadata[l]) :
                ~IsLocalPath(metadata[l][k]) /\ metadata[l][k] \in BuiltURLsOn(l)
          /\ written[1][l] = metadata[l]

\* A successful build-mode run over a dimension list of a script and a
\* style sheet, which ends with two URLs.
C3_Witness ==
    /\ SuccessfulBuild
    /\ \E l \in ShakenLeaves : Len(provided[l]) = 2 /\ Len(metadata[l]) = 2

\* C4 as stated: in a build-mode run no item is planned for a leaf that was
\* empty before the run, core included, no item has an empty file list, and
\* every leaf that was empty is empty in the tree written.
C4_SkipEmpty ==
    BuildMode =>
      /\ \A i \in ItemIds : provided[items[i].sink] # <<>> /\ items[i].files # <<>>
      /\ written # <<>> =>
            \A l \in Leaves : provided[l] = <<>> => written[1][l] = <<>>

\* C5 as stated: after a successful dev-mode run no item was queued and every
\* leaf, images included when image deployment has them in the tree, has its
\* length and holds at each position the URL of the path that was there.
C5_DevRewrite ==
    SuccessfulDev =>
      /\ items = <<>>
      /\ \A l \in (IF images THEN Leaves ELSE Leaves \ {IMAGES}) :
            /\ Len(metadata[l]) = Len(provided[l])
            /\ \A k \in 1..Len(provided[l]) : metadata[l][k] = getURL(provided[l][k])

\* C6 as stated: once a build has reported an error and nothing is left to
\* run, run's callback has been called with that error.
C6_Original ==
    Quiescent =>
      \A k \in 1..Len(thrown) : thrown[k].backend \in Range(callbacks)

\* C6, amended: the error a build reports is thrown, unchanged, out of the
\* build's callback as an uncaught exception; run's callback is not called
\* for it, with the error or otherwise; no item is built twice.
C6_ThrownUnchanged ==
    /\ \A k \in 1..Len(thrown) :
          /\ thrown[k].err = thrown[k].backend
          /\ status[thrown[k].item] = "failed"
    /\ \A i \in ItemIds :
          /\ builds[i] <= 1
          /\ status[i] = "failed" =>
                builds[i] = 1 /\ \E k \in 1..Len(thrown) : thrown[k].item = i
    /\ AnyFailed => callbacks = <<>>

\* A build failed, the process survived, and everything else has run.
C6_Witness ==
    /\ Len(items) >= 2
    /\ Len(thrown) = 1
    /\ thrown[1].err = "ENOENT"
    /\ ~crashed
    /\ Quiescent

\* C7 as stated: once a build has failed the metadata is never written and
\* run's callback never called with success, and when nothing is left to
\* run the items that were in flight at the failure have called back.
C7_Original ==
    /\ AnyFailed => written = <<>> /\ Successes = <<>>
    /\ Quiescent =>
          \A k \in 1..Len(thrown) :
            \A j \in thrown[k].siblings : status[j] \in {"done", "failed"}

\* C7, amended: once a build has failed the metadata is never written and
\* run's callback never called with success; the items in flight at the
\* failure are not cancelled, and call back and push their URLs if the
\* process survives the uncaught exception; if it does not, nothing more
\* runs.
C7_NeverWrittenAfterFailure ==
    /\ AnyFailed => written = <<>> /\ Successes = <<>>
    /\ \A i \in ItemIds :
          status[i] = "done" => builtURL(items[i]) \in Range(metadata[items[i].sink])
    /\ (Quiescent /\ ~crashed) =>
          \A k \in 1..Len(thrown) :
            \A j \in thrown[k].siblings : status[j] \in {"done", "failed"}
    /\ crashed => AnyFailed /\ Quiescent

\* A build failed with another item in flight, the process survived, and
\* that item was built and pushed its URL.
C7_Witness ==
    /\ ~crashed
    /\ Quiescent
    /\ \E k \in 1..Len(thrown) :
          \E j \in thrown[k].siblings :
            /\ status[j] = "done"
            /\ builtURL(items[j]) \in Range(metadata[items[j].sink])

\* C8 as stated: a run with the manifest present, no lint issue reported and
\* no build failed has, when nothing is left to run, written the metadata
\* and called back once, with success.
C8_RunsToDone ==
    (Quiescent /\ isMojitApp /\ lintBad = {} /\ ~AnyFailed) =>
      Len(written) = 1 /\ callbacks = <<"null">>

\* C9: once csslint has reported an issue for a CSS file the tree is as the
\* provider built it, no item is queued or built and nothing is written;
\* the run is over.
C9_LintAborts ==
    lintBad # {} =>
      /\ lint
      /\ metadata = provided
      /\ items = <<>>
      /\ \A i \in ItemIds : builds[i] = 0
      /\ written = <<>>
      /\ pc = "idle"

\* csslint has reported an issue in a build-mode run.
C9_Witness == lint /\ lintBad # {} /\ BuildMode /\ pc = "idle"

\* C10: with the manifest absent, run's own step calls the callback once,
\* with the error, and nothing else ever happens: the metadata is not read,
\* no lint runs, no item is queued, nothing is written.
C10_ManifestAbsent ==
    ~isMojitApp =>
      /\ pc \in {"start", "idle"}
      /\ pc = "start" => callbacks = <<>>
      /\ pc = "idle" => callbacks = <<"ERROR">>
      /\ ~metaRead
      /\ lintBad = {}
      /\ items = <<>>
      /\ written = <<>>
      /\ metadata = provided

\* run has returned with the manifest absent, lint on and a CSS file there.
C10_Witness ==
    /\ ~isMojitApp
    /\ lint
    /\ Len(filterFiles(getFiles(provided)).css) > 0
    /\ pc = "idle"
    /\ callbacks = <<"ERROR">>

(***************************************************************************)
(* The runs that plan and build: an application, lint off, a build task.   *)
(***************************************************************************)
BuildInit ==
    /\ Init
    /\ isMojitApp
    /\ ~lint
    /\ task # DEFAULT_TASK

BuildNext ==
    \/ run
    \/ process
    \/ \E i \in ItemIds : timer(i)
    \/ \E i \in ItemIds : built(i)
    \/ \E i \in ItemIds : failed(i)

BuildSpec == BuildInit /\ [][BuildNext]_vars

\* C11 as stated: no two items planned in a run have the same sink, except
\* Image items, which all have the images list.
C11_Original ==
    \A i, j \in ItemIds :
      (i # j /\ items[i].sink = items[j].sink) =>
        items[i].object = "Image" /\ items[j].object = "Image"

\* C11, amended: two items planned in a run have the same sink only if both
\* are Image items, on the images list, or they are the js Rollup and the
\* css Rollup of one dimension list; core and each client list are the sink
\* of at most one item, a dimension list of at most two.
C11_SharedSinks ==
    /\ \A i, j \in ItemIds :
          (i # j /\ items[i].sink = items[j].sink) =>
            \/ /\ items[i].sink = IMAGES
               /\ items[i].object = "Image" /\ items[j].object = "Image"
            \/ /\ items[i].sink \in ShakenLeaves
               /\ items[i].object = "Rollup" /\ items[j].object = "Rollup"
               /\ {mimeLookup(items[i].files[1]), mimeLookup(items[j].files[1])}
                    = {"application/javascript", "text/css"}
    /\ \A l \in {CORE} \cup ClientLeaves : Cardinality(ItemsOn(l)) <= 1
    /\ \A l \in ShakenLeaves : Cardinality(ItemsOn(l)) <= 2

\* The js Rollup and the css Rollup of one dimension list have both pushed
\* their URL on it, beside the item of a client list.
C11_Witness ==
    /\ \E i, j \in ItemIds :
          /\ i # j
          /\ items[i].sink = items[j].sink
          /\ items[i].sink \in ShakenLeaves
          /\ status[i] = "done" /\ status[j] = "done"
          /\ Len(metadata[items[i].sink]) = 2
    /\ Cardinality(Sinks) >= 2

\* The paths of list whose type is that of the first file of files.
SameTypeIn(list, files) ==
    SelectSeq(list, LAMBDA f : mimeLookup(f) = mimeLookup(files[1]))
\* The position of item i among the items on its sink.
RankOnSink(i) == Cardinality({j \in ItemsOn(items[i].sink) : j <= i})

\* C14: in a build-mode run every sink is empty until a build has been
\* invoked and never holds a local path again, and the file list of every
\* item is at all times the paths the provider gave, as taken at planning:
\* the whole list for core and client lists, the files of one type for a
\* dimension list, the one image for an Image; no URL is ever in it.
C14_SnapshotThenTruncate ==
    /\ \A l \in Sinks : \A k \in 1..Len(metadata[l]) : ~IsLocalPath(metadata[l][k])
    /\ (\A i \in ItemIds : builds[i] = 0) => \A l \in Sinks : metadata[l] = <<>>
    /\ \A i \in ItemIds :
          /\ \A k \in 1..Len(items[i].files) : IsLocalPath(items[i].files[k])
          /\ items[i].files =
                (IF items[i].sink = IMAGES
                 THEN <<provided[IMAGES][RankOnSink(i)]>>
                 ELSE IF items[i].sink \in ShakenLeaves
                 THEN SameTypeIn(provided[items[i].sink], items[i].files)
                 ELSE provided[items[i].sink])

\* Of two items on one dimension list the first has pushed its URL there
\* and the second is still building, from its own list of local paths.
C14_Witness ==
    \E i, j \in ItemIds :
      /\ i # j
      /\ items[i].sink = items[j].sink
      /\ status[i] = "done"
      /\ status[j] = "build"
      /\ metadata[items[i].sink] = <<builtURL(items[i])>>
      /\ items[j].files # <<>>

\* How often x is in list.
Occurrences(list, x) == Cardinality({k \in 1..Len(list) : list[k] = x})
DoneOn(leaf) == {i \in ItemsOn(leaf) : status[i] = "done"}
\* The URL the Image of a local image path is served at.
ImageURL(path) == STATIC_ROOT \o IMAGES_DIR \o basename(path)

\* C18: at every moment each sink holds exactly the URLs of the items on it
\* that are done, each as often as items produced it; so after the drain of
\* a run that deploys images the images list holds one URL for each image
\* the provider listed, none lost and none twice, whatever the order of
\* completion.
C18_OneURLPerItem ==
    /\ \A l \in Sinks :
          /\ Len(metadata[l]) = Cardinality(DoneOn(l))
          /\ \A i \in ItemsOn(l) :
                Occurrences(metadata[l], builtURL(items[i])) =
                  Cardinality({j \in DoneOn(l) : builtURL(items[j]) = builtURL(items[i])})
    /\ (SuccessfulBuild /\ images) =>
          /\ Len(metadata[IMAGES]) = Len(provided[IMAGES])
          /\ \A p \in ImageFiles :
                Occurrences(metadata[IMAGES], ImageURL(p)) = Occurrences(provided[IMAGES], p)

\* A run that deployed two different images has drained, and the second
\* image was built first.
C18_Witness ==
    /\ SuccessfulBuild
    /\ images
    /\ Len(provided[IMAGES]) = 2
    /\ provided[IMAGES][1] # provided[IMAGES][2]
    /\ metadata[IMAGES] = <<ImageURL(provided[IMAGES][2]), ImageURL(provided[IMAGES][1])>>

\* C19: no build sets a field of this._config: every build works on an
\* object of its own, which holds this._config's root, the item's own name
\* and, for an Image, the encoding 'bin'; the output task of every item
\* built ran with that item's name, whatever other builds were running.
C19_ConfigCloned ==
    /\ sharedConfig = [root |-> STATIC_ROOT, name |-> "undefined", encoding |-> "undefined"]
    /\ \A i \in ItemIds :
          /\ builds[i] > 0 =>
                /\ ~configs[i].alias
                /\ configs[i].value.root = sharedConfig.root
                /\ configs[i].value.name = items[i].name
                /\ configs[i].value.encoding =
                      (IF items[i].object = "Image" THEN "bin" ELSE "undefined")
          /\ status[i] = "done" => received[i] = items[i].name

\* Two builds with different names ran at the same time and the one invoked
\* first finished last, with its own name.
C19_Witness ==
    \E i, j \in ItemIds :
      /\ i < j
      /\ items[i].name # items[j].name
      /\ thrown = <<>>
      /\ received[j] = items[j].name
      /\ status[i] = "done"
      /\ received[i] = items[i].name
      /\ metadata[items[i].sink][Len(metadata[items[i].sink])] = builtURL(items[i])
      /\ items[i].sink = items[j].sink
      /\ parallel >= 2

(***************************************************************************)
(* Builds over an output directory that already holds some of the rollups. *)
(***************************************************************************)
\* The names of the items _queueRollups plans for a tree.
PlannedNames(m, deploy) == {it.name : it \in Range(queueRollups(m, deploy))}

\* A linted-off build of an application whose output directory may hold
\* any of the planned files from an earlier run.
SkipInit ==
    /\ Constructed
    /\ isMojitApp
    /\ ~lint
    /\ task # DEFAULT_TASK
    /\ unchanged \in SUBSET PlannedNames(provided, images)

SkipNext ==
    \/ run
    \/ process
    \/ \E i \in ItemIds : timer(i)
    \/ \E i \in ItemIds : built(i)

SkipSpec == SkipInit /\ [][SkipNext]_vars

\* The build of item i reported skipped=true.
Skipped(i) == reportsSkipped(items[i], resultSkipped(items[i]))

\* C15: a build that reports skipped=true succeeds like any other: its URL
\* is on its sink, one URL per build done, it has signalled (nothing of it is left pending and,
\* once every item has signalled, the tree is written and the callback runs
\* once without error); a push is logged for an item exactly when its
\* build succeeded without reporting skipped.
C15_SkippedIsSuccess ==
    /\ \A i \in ItemIds :
          /\ status[i] = "done" =>
                /\ Occurrences(metadata[items[i].sink], builtURL(items[i])) >= 1
                /\ Len(metadata[items[i].sink]) = Cardinality(DoneOn(items[i].sink))
                /\ i \notin InFlight
                /\ i \notin Range(q)
          /\ i \in pushed <=> (status[i] = "done" /\ ~Skipped(i))
    /\ workers = Cardinality(InFlight)
    /\ Quiescent /\ items # <<>> =>
          /\ \A i \in ItemIds : status[i] = "done"
          /\ callbacks = <<"null">>
          /\ written = <<metadata>>
          /\ \A l \in Sinks : Len(metadata[l]) = Cardinality(ItemsOn(l))

\* A build ends with a skipped rollup and a pushed rollup on one sink, and
\* a build that reported skipped was the last to signal.
C15_Witness ==
    /\ Quiescent
    /\ callbacks = <<"null">>
    /\ \E i, j \in ItemIds :
          /\ items[i].sink = items[j].sink
          /\ Skipped(i) /\ i \notin pushed
          /\ ~Skipped(j) /\ j \in pushed
          /\ metadata[items[i].sink] = <<builtURL(items[j]), builtURL(items[i])>>
    /\ \E i \in ItemIds : Skipped(i) /\ items[i].sink = CORE

(***************************************************************************)
(* The methods without state, called on their own.                         *)
(***************************************************************************)
MaxLen == 3

\* The paths a list handed to _filterFiles is made of.
ClassifiedFiles == {"a.js", "binder.js", "b.css", "d.css", "c.png", "index.mu.html"}

ListsUpTo(S, n) == UNION {ListsOfLen(S, k) : k \in 0..n}

\* The action names of a view: the wildcard and a named one.
Views == {"*", "index"}

\* Everything but call.
program == <<isMojitApp, lint, task, images, parallel, provided, metadata,
             metaRead, pc, lintBad, callbacks, written, items, q, ticks,
             workers, status, builds, thrown, crashed, sharedConfig, configs,
             received, unchanged, pushed>>

\* A compiler just constructed, on which single methods are called.
PureInit ==
    /\ Init
    /\ isMojitApp /\ ~lint /\ ~images
    /\ task = DEFAULT_TASK
    /\ parallel = parallelOf(<<>>)
    /\ \A l \in Leaves : provided[l] = <<>>

\* this._filterFiles(files): forEach reads files and pushes on new arrays.
classify ==
    /\ call.op = "none"
    /\ \E files \in ListsUpTo(ClassifiedFiles, MaxLen) :
          call' = [op |-> "_filterFiles", arg |-> files, after |-> files,
                   ret |-> filterFiles(files)]
    /\ UNCHANGED program

\* The part of _queueRollups for core, for one mojit action or for one app
\* action, over a tree holding the given client and dimension lists.
plan ==
    /\ call.op = "none"
    /\ \E scope \in {"core", "mojit", "app"}, mojit \in Range(MojitOrder),
          action \in Views, dim \in Range(DimOrder),
          client \in ListsUpTo(ClientFiles, 1),
          files \in ListsUpTo(DimFiles \cup {"d.css"}, MaxFiles) :
          LET m == (CORE :> files) @@
                   (MojitClient(mojit, action) :> client) @@
                   (AppClient(action) :> client) @@
                   [l \in {MojitShaken(mojit, action, d) : d \in Range(DimOrder)} \cup
                          {AppShaken(action, d) : d \in Range(DimOrder)} |-> files]
          IN  call' = [op |-> "_queueRollups", arg |-> m,
                       ret |-> CASE scope = "core" -> coreItems(m)
                                 [] scope = "mojit" -> mojitActionItems(m, mojit, action)
                                 [] scope = "app" -> appActionItems(m, action)]
    /\ UNCHANGED program

(***************************************************************************)
(* One build of Image, Rollup or ClientRollup, task by task of its gear    *)
(* queue.  A gear queue runs its tasks in series over the blobs of the     *)
(* task before, and hands the first error to the run callback.             *)
(***************************************************************************)
\* The shaker section of application.json, as far as a build depends on it.
ShakerConfigs ==
    [task : {"local"}, minify : {"undefined", "true", "false"},
     strip : {"undefined", "debug"}, bundleViews : {"undefined", "true"}]

\* A JS value taken as a condition.
truthy(v) == v \notin {"undefined", "false"}

\* options.key, undefined where options has no such property.
option(options, key) == IF key \in DOMAIN options THEN options[key] ELSE "undefined"

\* The options _compileRollups hands to build, from the constructor's fields.
buildOptions(shaker) ==
    [task |-> IF shaker.task = "local" THEN "write" ELSE shaker.task,
     minify |-> IF shaker.minify # "undefined" THEN shaker.minify ELSE "true",
     strip |-> shaker.strip,
     config |-> [root |-> STATIC_ROOT, name |-> "undefined", encoding |-> "undefined"]]

GearTask(id, arg) == [task |-> id, arg |-> arg]

\* queue.read(files): one read per file, in list order.
readTasks(files) == [k \in 1..Len(files) |-> GearTask("read", [name |-> files[k]])]

\* The tasks the Image of file queues.
imageTasks(item, options) ==
    readTasks(item.files) \o
    <<GearTask(options.task, buildConfig(options.config, item).value)>>

\* Mutant of rollupTasks: replace is queued whatever options.strip is.
rollupTasksStripAlways(item, options) ==
    readTasks(item.files) \o <<GearTask("concat", [callback |-> "none"])>> \o
    <<GearTask("replace", [pattern |-> options.strip])>> \o
    (IF truthy(options.minify)
     THEN <<GearTask(IF mimeLookup(item.name) = "application/javascript"
                     THEN "jsminify" ELSE "cssminify", [callback |-> "none"])>>
     ELSE <<>>) \o
    <<GearTask(options.task, buildConfig(options.config, item).value)>>

\* The tasks Rollup.prototype.build queues.
rollupTasks(item, options) ==
    readTasks(item.files) \o <<GearTask("concat", [callback |-> "none"])>> \o
    (IF truthy(options.strip) THEN <<GearTask("replace", [pattern |-> options.strip])>> ELSE <<>>) \o
    (IF truthy(options.minify)
     THEN <<GearTask(IF mimeLookup(item.name) = "application/javascript"
                     THEN "jsminify" ELSE "cssminify", [callback |-> "none"])>>
     ELSE <<>>) \o
    <<GearTask(options.task, buildConfig(options.config, item).value)>>

\* The tasks ClientRollup.prototype.build queues.
clientRollupTasks(item, options) ==
    readTasks(item.files) \o
    <<GearTask("concat", [callback |-> "views", bundleViews |-> option(options, "bundleViews")])>> \o
    (IF truthy(options.strip) THEN <<GearTask("replace", [pattern |-> options.strip])>> ELSE <<>>) \o
    (IF truthy(options.minify) THEN <<GearTask("jsminify", [callback |-> "none"])>> ELSE <<>>) \o
    <<GearTask(options.task, buildConfig(options.config, item).value)>>

\* The content of a file of the model.
contentOf(file) == "<" \o file \o ">"

\* filename.match(/.*\/?mojits\/(.*)\/views.*\/(.*)\.(.*)\.html/) on the
\* view path of the model.
viewParts(filename) ==
    CASE filename = "mojits/m/views/index.mu.html" ->
            [mojit |-> "m", action |-> "index", renderer |-> "mu"]

\* The snippet that registers a view in the client's template cache.
viewSnippet(blob) ==
    LET parts == viewParts(blob.name)
    IN  "YUI.add(views/" \o parts.mojit \o "/" \o parts.action \o ", " \o
        "compiled." \o parts.mojit \o ".views." \o parts.action \o " = " \o
        "JSON(" \o blob.result \o "))"

\* The callback ClientRollup gives concat; bundleViews is options.bundleViews.
concatCallback(blob, bundleViews) ==
    IF mimeLookup(blob.name) = "text/html"
    THEN IF truthy(bundleViews) THEN viewSnippet(blob) ELSE ""
    ELSE blob.result

RECURSIVE Join(_)
Join(strings) == IF strings = <<>> THEN "" ELSE Head(strings) \o Join(Tail(strings))

\* What each blob gives to the concatenation of a build's concat task.
piecesOf(blobs, arg) ==
    [k \in 1..Len(blobs) |->
        IF arg.callback = "views" THEN concatCallback(blobs[k], arg.bundleViews)
        ELSE blobs[k].result]

\* The blobs a task that succeeds leaves, from the blobs it is given.
taskBlobs(object, step, blobs) ==
    CASE step.task = "read" ->
            Append(blobs, [name |-> step.arg.name, result |-> contentOf(step.arg.name)])
      [] step.task = "concat" ->
            <<[name |-> "", result |-> Join(piecesOf(blobs, step.arg))]>>
      [] step.task \in {"replace", "jsminify", "cssminify"} ->
            [k \in 1..Len(blobs) |->
                [blobs[k] EXCEPT !.result = step.task \o "(" \o @ \o ")"]]
      [] OTHER -> blobs

\* The run callback of a build: callback(err), or callback(null, url) with
\* result.skipped for a Rollup.
runCallback(item, err, cfg, taskSkipped) ==
    IF err # "null"
    THEN [err |-> err]
    ELSE [err |-> "null", url |-> cfg.root \o cfg.name,
          skipped |-> reportsSkipped(item, taskSkipped)]

\* The items a build is called on.
BuildItems ==
    {Item("Image", IMAGES_DIR \o basename(f), <<f>>, IMAGES) : f \in {"img/i.png"}} \cup
    {Item(object, COMPILED_DIR \o name, files, CORE) :
        object \in {"Rollup"},
        name \in {"core_{checksum}.js", "m_default_{checksum}.css"},
        files \in ListsUpTo({"a.js", "b.css", "mojits/m/views/index.mu.html"}, MaxLen)} \cup
    {Item(object, COMPILED_DIR \o name, files, CORE) :
        object \in {"ClientRollup"},
        name \in {"client_m_{checksum}.js"},
        files \in ListsUpTo({"a.js", "b.css", "mojits/m/views/index.mu.html"}, MaxLen)}

\* item.object.build(registry, options, callback) up to queue.run.
build ==
    /\ call.op = "none"
    /\ \E item \in BuildItems, shaker \in ShakerConfigs :
          LET options == buildOptions(shaker)
          IN  call' = [op |-> "build", item |-> item, shaker |-> shaker,
                       tasks |-> CASE item.object = "Image" -> imageTasks(item, options)
                                   [] item.object = "Rollup" -> rollupTasks(item, options)
                                   [] item.object = "ClientRollup" ->
                                          clientRollupTasks(item, options),
                       at |-> 1, blobs |-> <<>>, pieces |-> <<>>, trace |-> <<>>,
                       failed |-> 0, out |-> <<>>, calledBack |-> 0,
                       result |-> [err |-> "undefined"]]
    /\ UNCHANGED program

\* The gear queue runs its next task: it fails, and the run callback gets
\* the error, or it succeeds, and after the last task the run callback gets
\* the results.
gearTask ==
    /\ call.op = "build"
    /\ call.calledBack = 0
    /\ LET step == call.tasks[call.at]
           last == call.at = Len(call.tasks)
       IN  \E err \in Errors \cup {"null"}, skipped \in BOOLEAN :
             /\ ~last => ~skipped
             /\ err # "null" => ~skipped
             /\ call' =
                  IF err # "null"
                  THEN [call EXCEPT !.trace = Append(@, step),
                                    !.failed = call.at,
                                    !.out = IF last THEN Append(@, call.blobs) ELSE @,
                                    !.calledBack = @ + 1,
                                    !.result = runCallback(call.item, err, step.arg, skipped)]
                  ELSE [call EXCEPT !.trace = Append(@, step),
                                    !.at = @ + 1,
                                    !.blobs = taskBlobs(call.item.object, step, @),
                                    !.pieces = IF step.task = "concat"
                                               THEN piecesOf(call.blobs, step.arg)
                                               ELSE @,
                                    !.out = IF last THEN Append(@, call.blobs) ELSE @,
                                    !.calledBack = IF last THEN @ + 1 ELSE @,
                                    !.result = IF last
                                               THEN runCallback(call.item, err, step.arg, skipped)
                                               ELSE @]
    /\ UNCHANGED program

PureNext == classify \/ plan \/ build \/ gearTask

PureSpec == PureInit /\ [][PureNext]_vars

\* The elements of list of the given type, in the order of list.
RECURSIVE OfType(_, _)
OfType(list, type) ==
    IF list = <<>> THEN <<>>
    ELSE (IF mimeLookup(Head(list)) = type THEN <<Head(list)>> ELSE <<>>) \o
         OfType(Tail(list), type)

C13_WitnessOrder ==
    /\ call.op = "_filterFiles"
    /\ call.arg = <<"d.css", "index.mu.html", "b.css">>
    /\ call.ret = [js |-> <<>>, css |-> <<"d.css", "b.css">>]

\* The view of an action name as the naming scheme writes it.
ViewOrDefault(action) == IF action = "*" THEN "default" ELSE action

\* The extension of a rollup: .js for script files, .css for style files.
Extension(item) ==
    IF \A f \in Range(item.files) : mimeLookup(f) = "application/javascript"
    THEN ".js" ELSE ".css"

\* The name template of the naming scheme for an item, from its sink.
PatternOf(item) ==
    LET sink == item.sink
    IN  CASE sink = CORE -> "core_{checksum}.js"
          [] sink[1] = "mojits" /\ IsClient(sink) ->
                "client_" \o sink[2] \o "_{checksum}.js"
          [] sink[1] = "mojits" /\ ~IsClient(sink) ->
                sink[2] \o "_" \o ViewOrDefault(sink[3]) \o "_{checksum}" \o Extension(item)
          [] sink[1] = "app" /\ IsClient(sink) ->
                "appclient_" \o ViewOrDefault(sink[2]) \o "_{checksum}.js"
          [] sink[1] = "app" /\ ~IsClient(sink) ->
                "app_" \o ViewOrDefault(sink[2]) \o "_{checksum}" \o Extension(item)

\* C17: every planned name is the compiled directory followed by the
\* pattern of the item's category with {checksum} unresolved, where the
\* view * is written default: no planned name holds a *.
C17_NamesFollowPattern ==
    call.op = "_queueRollups" =>
        \A k \in 1..Len(call.ret) :
            call.ret[k].name = COMPILED_DIR \o PatternOf(call.ret[k])

\* The name of a gear task as a pipeline step.
StepName(step) == IF step.task = "read" THEN "read " \o step.arg.name ELSE step.task

\* The steps of a Rollup build, from the settings of the run: read every
\* file in list order, concatenate, strip if a pattern is set, minify
\* unless minify is off, output.
RollupPipeline(item, shaker) ==
    [k \in 1..Len(item.files) |-> "read " \o item.files[k]] \o <<"concat">> \o
    (IF shaker.strip # "undefined" THEN <<"replace">> ELSE <<>>) \o
    (IF shaker.minify # "false"
     THEN <<IF mimeLookup(item.name) = "text/css" THEN "cssminify" ELSE "jsminify">>
     ELSE <<>>) \o
    <<"write">>

\* The bytes a Rollup build gives to its output task.
RollupBytes(item, shaker) ==
    LET joined == Join([k \in 1..Len(item.files) |-> "<" \o item.files[k] \o ">"])
        stripped == IF shaker.strip # "undefined" THEN "replace(" \o joined \o ")"
                    ELSE joined
    IN  IF shaker.minify = "false" THEN stripped
        ELSE IF mimeLookup(item.name) = "text/css" THEN "cssminify(" \o stripped \o ")"
        ELSE "jsminify(" \o stripped \o ")"

\* C12: the steps a Rollup build has run are a prefix of: read each file
\* in list order, concat, replace (if strip is set), minify (if minify is
\* set), output task; the output task is invoked at most once, and only
\* after every earlier step succeeded, on the bytes those steps give; a
\* step that fails ends the build: the build callback gets the error and
\* no URL, once, and no later step runs.
C12_RollupPipeline ==
    (call.op = "build" /\ call.item.object = "Rollup") =>
        LET expected == RollupPipeline(call.item, call.shaker)
            ran == [k \in 1..Len(call.trace) |-> StepName(call.trace[k])]
        IN  /\ Len(ran) <= Len(expected)
            /\ ran = SubSeq(expected, 1, Len(ran))
            /\ call.calledBack <= 1
            /\ Len(call.out) <= 1
            /\ Len(call.out) = 1 =>
                  /\ Len(ran) = Len(expected)
                  /\ call.failed \in {0, Len(expected)}
                  /\ call.out[1] = <<[name |-> "", result |-> RollupBytes(call.item, call.shaker)]>>
            /\ call.failed # 0 =>
                  /\ Len(ran) = call.failed
                  /\ call.calledBack = 1
                  /\ DOMAIN call.result = {"err"}
                  /\ call.result.err \in Errors
            /\ (call.failed = 0 /\ Len(ran) = Len(expected)) =>
                  /\ call.calledBack = 1
                  /\ call.result.err = "null"
                  /\ call.result.url = STATIC_ROOT \o call.item.name
            /\ (call.failed = 0 /\ Len(ran) < Len(expected)) => call.calledBack = 0

\* Reading the second file of a css Rollup fails, with strip and minify
\* set: the callback gets the error, nothing is concatenated or written.
C12_Witness ==
    /\ call.op = "build"
    /\ call.item.object = "Rollup"
    /\ call.item.files = <<"b.css", "a.js">>
    /\ call.shaker.strip # "undefined"
    /\ call.shaker.minify = "true"
    /\ call.failed = 2
    /\ call.out = <<>>
    /\ call.calledBack = 1
    /\ call.result = [err |-> "ENOENT"]

\* A js Rollup of two files with strip and default minify is written.
C12_WitnessWritten ==
    /\ call.op = "build"
    /\ call.item.object = "Rollup"
    /\ call.item.files = <<"a.js", "b.css">>
    /\ call.item.name = COMPILED_DIR \o "core_{checksum}.js"
    /\ call.failed = 0
    /\ call.out = <<<<[name |-> "", result |-> "jsminify(replace(<a.js><b.css>))"]>>>>
    /\ call.result.err = "null"
    /\ call.result.skipped

\* C16: once a ClientRollup build has concatenated, every HTML input has
\* given the snippet registering its view when bundleViews is set in the
\* shaker configuration and the empty string when it is not, and every
\* other input has given its content.
C16_ViewsCachedWhenEnabled ==
    (/\ call.op = "build"
     /\ call.item.object = "ClientRollup"
     /\ call.at > Len(call.item.files) + 1) =>
        /\ Len(call.pieces) = Len(call.item.files)
        /\ \A k \in 1..Len(call.item.files) :
              LET file == call.item.files[k]
              IN  call.pieces[k] =
                    IF mimeLookup(file) = "text/html"
                    THEN IF call.shaker.bundleViews = "true"
                         THEN "YUI.add(views/m/index, compiled.m.views.index = JSON(<" \o file \o ">))"
                         ELSE ""
                    ELSE "<" \o file \o ">"

====
